---- MODULE Spec2Model ----
(***************************************************************************)
(* A model of the resource handlers of terraform-provider-tencentcloud:    *)
(* the NAT gateway resource (create, read, update, delete with their       *)
(* status polling and the assigned_eip_set reconciliation) and the         *)
(* resources that keep a compound "a#b" identifier (monitor tmp_cvm_agent, *)
(* scf function_event_invoke_config, tdmq namespace_role_attachment and    *)
(* tdmq rabbitmq_user), the wedata rule_template resource, Create of the   *)
(* EMR cluster, and the reads of the data sources tse_gateway_routes and   *)
(* sqlserver_ins_attribute.                                                *)
(*                                                                         *)
(* One handler invocation runs at a time.  A handler is a sequence of      *)
(* steps; every remote request is one step, and a request that sits in a   *)
(* resource.Retry loop is repeated by the same step until it succeeds,     *)
(* fails with a non-retryable error or the loop's timeout expires.         *)
(* Strings that are split or joined are sequences of one-character         *)
(* strings.                                                                *)
(***************************************************************************)
EXTENDS Integers, Sequences, FiniteSets, TLC

(* ------------------------------- bounds ------------------------------- *)

\* Attempts that fit into readRetryTimeout before resource.Retry gives up.
ReadRetryBudget == 2

\* Attempts that fit into writeRetryTimeout before resource.Retry gives up.
WriteRetryBudget == 2

\* Number of distinct EIP addresses a configuration may draw from.
NumEips == 11

\* Addresses of which every non-empty subset is tried as an assigned_eip_set,
\* besides the runs lo..hi of up to MaxItems addresses.
SmallEips == 4

\* Addresses of which every non-empty subset is tried by the updates that also
\* change other arguments.
FewEips == 2

\* Longest compound ID handed to Read, Update or Delete.
MaxIdLen == 4

\* Longest value of one part of a compound ID (a schema field, an API answer).
MaxPartLen == 2

\* Most arguments of wedata rule_template that change in one update.
MaxChanged == 2

\* Most routes in one answer of the tse gateway's route list.
MaxRoutes == 2

(* ------------------------- program constants -------------------------- *)

\* The separator of compound IDs.
FILED_SP == "#"

\* assigned_eip_set: MinItems and MaxItems of the schema.
MinItems == 1

MaxItems == 10

\* The largest number of EIPs one NAT gateway holds.
NAT_EIP_MAX_LIMIT == 10

\* The gateway state that ends the wait for a deletion with an error.
NAT_FAILED_STATE == "FAILED"

\* Error codes resource.Retry repeats a request for.
retryableErrorCode == {"RequestLimitExceeded"}

\* The extra code ResetNatGatewayConnection and OfflineIsolatedInstances retry.
InternalError == "InternalError"

\* The code tdmq namespace_role_attachment's delete takes for "already gone".
VPCNotFound == "ResourceNotFound"

(* ------------------------------ strings ------------------------------- *)

Chars == {"a", FILED_SP}

RECURSIVE StringsOfLen(_)
StringsOfLen(n) ==
    IF n = 0 THEN {<<>>}
    ELSE {<<c>> \o s : c \in Chars, s \in StringsOfLen(n - 1)}

StringsUpTo(n) == UNION {StringsOfLen(k) : k \in 0..n}

\* strings.Split(s, sep) for a one-character separator: the pieces between the
\* separators, in order; a string without separator is its own single piece.
RECURSIVE Split(_, _)
Split(s, sep) ==
    IF \A i \in 1..Len(s) : s[i] # sep THEN <<s>>
    ELSE LET k == CHOOSE i \in 1..Len(s) :
                      s[i] = sep /\ \A j \in 1..(i - 1) : s[j] # sep
         IN  <<SubSeq(s, 1, k - 1)>> \o Split(SubSeq(s, k + 1, Len(s)), sep)

\* strings.Join(parts, sep).
RECURSIVE Join(_, _)
Join(parts, sep) ==
    IF Len(parts) = 0 THEN <<>>
    ELSE IF Len(parts) = 1 THEN parts[1]
    ELSE parts[1] \o <<sep>> \o Join(Tail(parts), sep)

(* ------------------------- resource.Retry ----------------------------- *)

\* retryError(e, additionRetryableError...): the error stays retryable when its
\* code is in the provider's list or among the extra codes of the call.
retryError(e, extra) ==
    IF e \in retryableErrorCode \cup extra THEN "retryable" ELSE "fatal"

\* Error codes a remote call may answer with.
ErrCodes == {"RequestLimitExceeded", InternalError, "InvalidParameter", VPCNotFound}

\* A retry loop whose timeout never expires.
TimedOutNever(n, budget) == FALSE

\* Whether resource.Retry's timeout has expired after n attempts.
TimedOut(n, budget) == n >= budget

\* What resource.Retry does with the result of attempt n of its function:
\* "ok" ends the loop with success, "fatal" and "timeout" end it with an error,
\* "again" runs the function once more.
Retry(result, n, budget) ==
    CASE result = "ok" -> "ok"
      [] result = "fatal" -> "fatal"
      [] OTHER -> IF TimedOut(n, budget) THEN "timeout" ELSE "again"

(* ------------------------------- state -------------------------------- *)

VARIABLES
    op,          \* the handler that runs, "none" between invocations
    pc,          \* the step the handler is at
    id,          \* d.Id()
    attrs,       \* the attributes written into state by d.Set, by name
    err,         \* the handler's result: "none" while it runs, "nil", or the error
    loop,        \* the call site of the last remote request, its arguments, the
                 \* number of attempts at that site and the last attempt's outcome
    acked,       \* call sites of mutating requests that succeeded
    obs,         \* the last answer a status poll observed
    oldEipSet,   \* Update: assigned_eip_set before the change
    newEipSet,   \* Update: assigned_eip_set after the change
    bound,       \* the addresses bound to the remote gateway
    backUpOldIp, \* Update: the old address kept until new ones are bound (0: "")
    backUpNewIp, \* Update: the new address bound last (0: "")
    unassignedRequest, \* Update: the addresses of the first Disassociate request
    assignedRequest,   \* Update: the addresses of the first Associate request
    changed,     \* Update: the arguments d.HasChange reports as changed
    cfg,         \* the configuration the handler reads with d.Get
    id0,         \* the ID the handler was entered with
    attrs0,      \* the attributes the handler was entered with
    resp,        \* a value of an earlier response the handler kept: the
                 \* identifier of the create request, Delete's MetaDb
    seen         \* what the last describe of a Read, of EMR's wait or of a data
                 \* source answered

vars == <<op, pc, id, attrs, err, loop, acked, obs,
          oldEipSet, newEipSet, bound, backUpOldIp, backUpNewIp,
          unassignedRequest, assignedRequest, changed, cfg, id0, attrs0, resp,
          seen>>

eipVars == <<oldEipSet, newEipSet, bound, backUpOldIp, backUpNewIp,
             unassignedRequest, assignedRequest>>

NoLoop == [site |-> "none", args |-> <<>>, n |-> 0, last |-> "none"]

NoObs == [len |-> -1, stat |-> "none"]

NoCfg == [p1 |-> <<>>, p2 |-> <<>>]

\* No describe has answered yet.
NoSeen == [e |-> "none", len |-> -1, status |-> -1, ids |-> <<>>]

\* The answer of a describe: its error and, without error, the number of
\* objects it returned.
Seen(e, len) ==
    [e |-> e, len |-> IF e = "nil" THEN len ELSE -1, status |-> -1, ids |-> <<>>]

\* d.Set(name, value): the attribute is written over.
DSet(as, name, value) == {a \in as : a[1] # name} \cup {<<name, value>>}

\* The ID the remote side gives a NAT gateway.
NatId == <<"n">>

Init ==
    /\ op = "none"
    /\ pc = "idle"
    /\ id = <<>>
    /\ attrs = {}
    /\ err = "none"
    /\ loop = NoLoop
    /\ acked = {}
    /\ obs = NoObs
    /\ oldEipSet = {}
    /\ newEipSet = {}
    /\ bound = {}
    /\ backUpOldIp = 0
    /\ backUpNewIp = 0
    /\ unassignedRequest = <<>>
    /\ assignedRequest = <<>>
    /\ changed = {}
    /\ cfg = NoCfg
    /\ id0 = <<>>
    /\ attrs0 = {}
    /\ resp = <<>>
    /\ seen = NoSeen

\* No handler runs.
Idle == pc = "idle"

\* A handler is entered with a fresh request log.
Enter(o, firstPc, startId, startAttrs, config) ==
    /\ op' = o
    /\ pc' = firstPc
    /\ id' = startId
    /\ attrs' = startAttrs
    /\ err' = "none"
    /\ loop' = NoLoop
    /\ acked' = {}
    /\ obs' = NoObs
    /\ backUpOldIp' = 0
    /\ backUpNewIp' = 0
    /\ unassignedRequest' = <<>>
    /\ assignedRequest' = <<>>
    /\ cfg' = config
    /\ id0' = startId
    /\ attrs0' = startAttrs
    /\ resp' = <<>>
    /\ seen' = NoSeen

\* A handler that is not Update has no changed arguments to look at.
NoChange ==
    /\ changed' = {}
    /\ oldEipSet' = {}
    /\ newEipSet' = {}
    /\ bound' = {}

\* The handler has returned to Terraform; the next one starts afresh.
Finish ==
    /\ pc = "done"
    /\ op' = "none"
    /\ pc' = "idle"
    /\ id' = <<>>
    /\ attrs' = {}
    /\ err' = "none"
    /\ loop' = NoLoop
    /\ acked' = {}
    /\ obs' = NoObs
    /\ backUpOldIp' = 0
    /\ backUpNewIp' = 0
    /\ unassignedRequest' = <<>>
    /\ assignedRequest' = <<>>
    /\ cfg' = NoCfg
    /\ id0' = <<>>
    /\ attrs0' = {}
    /\ resp' = <<>>
    /\ seen' = NoSeen
    /\ NoChange

\* resource.Retry(10*readRetryTimeout, ...) of the EMR cluster: the attempts
\* that fit, ten times those of readRetryTimeout.
EmrRetryBudget == 10 * ReadRetryBudget

\* Attempts made at a call site once the next request is sent.  The counter
\* stops at the budget of the site's loop, where the loop looks no further.
Attempt(site, budget) ==
    IF loop.site # site THEN 1
    ELSE IF loop.n < budget THEN loop.n + 1 ELSE loop.n

\* One remote request at a call site: the log of the invocation.
Send(site, args, outcome, budget) ==
    /\ loop' = [site |-> site, args |-> args,
                n |-> Attempt(site, budget),
                last |-> outcome]
    /\ op' = op

\* The handler returns.
Return(e) ==
    /\ pc' = "done"
    /\ err' = e

\* A request inside resource.Retry(budget, f): f's result for this attempt is
\* `result`; on success the handler goes on with onOk, a non-retryable error or
\* the timeout makes it return the error e, otherwise the request is repeated.
InRetry(site, args, result, budget, e, onOk) ==
    /\ Send(site, args, result, budget)
    /\ LET r == Retry(result, Attempt(site, budget), budget)
       IN  CASE r = "ok" -> onOk
             [] r = "again" ->
                  /\ UNCHANGED <<pc, err, id, attrs, acked, eipVars>>
             [] OTHER ->
                  /\ Return(e)
                  /\ UNCHANGED <<id, attrs, acked, eipVars>>

\* A request outside any retry loop: sent once.
Once(site, args, result, e, onOk) ==
    /\ Send(site, args, result, 1)
    /\ IF result = "ok" THEN onOk
       ELSE /\ Return(e)
            /\ UNCHANGED <<id, attrs, acked, eipVars>>

\* The handler goes on to step p, the request at `site` having changed the
\* remote side.
GoAcked(p, site) ==
    /\ pc' = p
    /\ acked' = acked \cup {site}
    /\ UNCHANGED <<err, id, attrs, eipVars>>

Go(p) ==
    /\ pc' = p
    /\ UNCHANGED <<err, id, attrs, acked, eipVars>>

\* A Read that reports a missing resource as an error and keeps its ID.
GoneIsError ==
    /\ Return("resource does not exist")
    /\ UNCHANGED <<id, attrs, acked, eipVars>>

\* Read found that the resource no longer exists: d.SetId("") and return nil.
Gone ==
    /\ id' = <<>>
    /\ Return("nil")
    /\ UNCHANGED <<attrs, acked, eipVars>>

(* ---------------------------- NAT gateway ----------------------------- *)

NatStates == {"PENDING", "AVAILABLE", NAT_FAILED_STATE, "DELETING"}

\* What DescribeNatGateways may answer: an error, or a gateway set of some
\* length whose first gateway is in some state.
DescribeAnswers ==
    [e : ErrCodes, len : {0}, stat : {"none"}]
      \cup [e : {"nil"}, len : {0}, stat : {"none"}]
      \cup [e : {"nil"}, len : {1, 2}, stat : NatStates]

\* The attributes Read writes from the gateway DescribeNatGateways returned.
NatReadAttrs ==
    {"vpc_id", "name", "max_concurrent", "bandwidth", "created_time",
     "assigned_eip_set", "zone"}

NatCreateBegin ==
    /\ Idle
    /\ Enter("NatCreate", "create_call", <<>>, {}, NoCfg)
    /\ NoChange

\* resourceTencentCloudNatGatewayCreate: CreateNatGateway inside Retry, then
\* the check of the response and SetId.
NatCreateCall ==
    /\ op = "NatCreate" /\ pc = "create_call"
    /\ \E e \in ErrCodes \cup {"nil"}, len \in {0, 1} :
         InRetry("CreateNatGateway", <<>>,
                 IF e = "nil" THEN "ok" ELSE retryError(e, {}),
                 ReadRetryBudget, e,
                 /\ acked' = acked \cup {"CreateNatGateway"}
                 /\ IF len < 1
                    THEN /\ Return("NAT gateway ID is nil")
                         /\ id' = id
                    ELSE /\ pc' = "create_tags"
                         /\ err' = err
                         /\ id' = NatId
                 /\ UNCHANGED <<attrs, eipVars>>)
    /\ UNCHANGED <<obs, changed, cfg, id0, attrs0, resp, seen>>

\* The tags of the configuration are written with one ModifyTags call.
NatCreateTags ==
    /\ op = "NatCreate" /\ pc = "create_tags"
    /\ \E hasTags \in BOOLEAN, e \in ErrCodes \cup {"nil"} :
         IF hasTags
         THEN Once("ModifyTags", <<>>, IF e = "nil" THEN "ok" ELSE "fatal", e,
                   GoAcked("create_poll", "ModifyTags"))
         ELSE /\ e = "nil"
              /\ Go("create_poll")
              /\ UNCHANGED <<loop, op>>
    /\ UNCHANGED <<obs, changed, cfg, id0, attrs0, resp, seen>>

\* A poll that takes any single gateway for a created one.
CreatePollNoWait(a) ==
    CASE a.e # "nil" -> retryError(a.e, {})
      [] a.len # 1 -> "fatal"
      [] OTHER -> "ok"

\* A poll that waits on when the answer does not hold exactly one gateway.
CreatePollPatient(a) ==
    CASE a.e # "nil" -> retryError(a.e, {})
      [] a.len = 1 /\ a.stat = "AVAILABLE" -> "ok"
      [] OTHER -> "retryable"

\* The result of one poll of Create's wait: lines 201-218.
CreatePoll(a) ==
    CASE a.e # "nil" -> retryError(a.e, {})
      [] a.len # 1 -> "fatal"
      [] a.stat = "AVAILABLE" -> "ok"
      [] OTHER -> "retryable"

\* The error Create's wait ends with for an answer that does not end it well.
CreatePollError(a) ==
    CASE a.e # "nil" -> a.e
      [] a.len # 1 -> "creating error"
      [] OTHER -> "creating not ready retry"

\* What a poll saw of the gateway: nothing when the call failed.
Observe(a) ==
    IF a.e # "nil" THEN obs
    ELSE [len |-> a.len, stat |-> IF a.len >= 1 THEN a.stat ELSE "none"]

\* Create waits for the gateway: DescribeNatGateways inside Retry.
NatCreatePoll ==
    /\ op = "NatCreate" /\ pc = "create_poll"
    /\ \E a \in DescribeAnswers :
         /\ InRetry("DescribeNatGateways", id, CreatePoll(a), ReadRetryBudget,
                    CreatePollError(a), Go("read_describe"))
         /\ obs' = Observe(a)
    /\ UNCHANGED <<changed, cfg, id0, attrs0, resp, seen>>

NatReadBegin ==
    /\ Idle
    /\ Enter("NatRead", "read_describe", NatId, {}, NoCfg)
    /\ NoChange

\* resourceTencentCloudNatGatewayRead: DescribeNatGateways inside Retry, then
\* the gateway's attributes are written, or the ID is cleared when the set is
\* empty.  Create ends with the same steps.
NatReadDescribe ==
    /\ op \in {"NatCreate", "NatRead"} /\ pc = "read_describe"
    /\ \E a \in DescribeAnswers :
         /\ InRetry("DescribeNatGateways.read", id,
                    IF a.e = "nil" THEN "ok" ELSE retryError(a.e, {}),
                    ReadRetryBudget, a.e,
                    IF a.len < 1
                    THEN Gone
                    ELSE /\ attrs' = {<<n, <<"r">> >> : n \in NatReadAttrs}
                                       \cup {x \in attrs : x[1] \notin NatReadAttrs}
                         /\ pc' = "read_tags"
                         /\ UNCHANGED <<err, id, acked, eipVars>>)
         /\ seen' = Seen(a.e, a.len)
    /\ UNCHANGED <<obs, changed, cfg, id0, attrs0, resp>>

\* Read ends with the tags of the gateway.
NatReadTags ==
    /\ op \in {"NatCreate", "NatRead"} /\ pc = "read_tags"
    /\ \E e \in ErrCodes \cup {"nil"} :
         Once("DescribeResourceTags", id, IF e = "nil" THEN "ok" ELSE "fatal", e,
              /\ attrs' = DSet(attrs, "tags", <<"r">>)
              /\ Return("nil")
              /\ UNCHANGED <<id, acked, eipVars>>)
    /\ UNCHANGED <<obs, changed, cfg, id0, attrs0, resp, seen>>

NatDeleteBegin ==
    /\ Idle
    /\ Enter("NatDelete", "delete_call", NatId, {}, NoCfg)
    /\ NoChange

\* resourceTencentCloudNatGatewayDelete: DeleteNatGateway inside Retry.
NatDeleteCall ==
    /\ op = "NatDelete" /\ pc = "delete_call"
    /\ \E e \in ErrCodes \cup {"nil"} :
         InRetry("DeleteNatGateway", id,
                 IF e = "nil" THEN "ok" ELSE retryError(e, {}),
                 WriteRetryBudget, e,
                 GoAcked("delete_poll", "DeleteNatGateway"))
    /\ UNCHANGED <<obs, changed, cfg, id0, attrs0, resp, seen>>

\* A poll that takes a gateway in state DELETING for gone.
DeletePollEager(a) ==
    CASE a.e # "nil" -> retryError(a.e, {})
      [] a.len = 0 -> "ok"
      [] a.stat = NAT_FAILED_STATE -> "fatal"
      [] a.stat = "DELETING" -> "ok"
      [] OTHER -> "retryable"

\* The result of one poll of Delete's wait: lines 528-547.
DeletePoll(a) ==
    CASE a.e # "nil" -> retryError(a.e, {})
      [] a.len = 0 -> "ok"
      [] a.stat = NAT_FAILED_STATE -> "fatal"
      [] OTHER -> "retryable"

DeletePollError(a) ==
    CASE a.e # "nil" -> a.e
      [] a.len # 0 /\ a.stat = NAT_FAILED_STATE -> "delete NAT failed"
      [] OTHER -> "deleting retry"

\* Delete waits until the gateway is gone: DescribeNatGateways inside Retry.
NatDeletePoll ==
    /\ op = "NatDelete" /\ pc = "delete_poll"
    /\ \E a \in DescribeAnswers :
         /\ InRetry("DescribeNatGateways", id, DeletePoll(a), ReadRetryBudget,
                    DeletePollError(a),
                    /\ Return("nil")
                    /\ UNCHANGED <<id, attrs, acked, eipVars>>)
         /\ obs' = Observe(a)
    /\ UNCHANGED <<changed, cfg, id0, attrs0, resp, seen>>

NextNat ==
    \/ NatCreateBegin
    \/ NatCreateCall
    \/ NatCreateTags
    \/ NatCreatePoll
    \/ NatReadBegin
    \/ NatReadDescribe
    \/ NatReadTags
    \/ NatDeleteBegin
    \/ NatDeleteCall
    \/ NatDeletePoll

(* ----------------------- NAT gateway: Update -------------------------- *)

\* (*schema.Set).List(): the elements in the set's hash order.  Addresses are
\* numbered by that order.
SetList(S) ==
    [i \in 1..Cardinality(S) |->
        CHOOSE x \in S : Cardinality({y \in S : y < x}) = i - 1]

Elems(list) == {list[i] : i \in 1..Len(list)}

\* The values assigned_eip_set takes: runs of addresses and all small sets.
EipSets ==
    {s \in {lo..hi : lo \in 1..NumEips, hi \in 1..NumEips} \cup SUBSET (1..SmallEips) :
        Cardinality(s) >= MinItems /\ Cardinality(s) <= MaxItems}

\* Lines 364-384: the old addresses to disassociate first.  An address that is
\* not in the new set goes into the request, unless the request would then
\* hold all but one old address: that one is kept as backUpOldIp.
RECURSIVE UnassignScan(_, _, _, _, _)
UnassignScan(oldList, newList, i, req, backUp) ==
    IF i > Len(oldList) THEN [req |-> req, backUp |-> backUp]
    ELSE LET publicIp == oldList[i]
             isIn == \E j \in 1..Len(newList) : publicIp = newList[j]
         IN  IF isIn THEN UnassignScan(oldList, newList, i + 1, req, backUp)
             ELSE IF Len(req) + 1 = Len(oldList)
                  THEN UnassignScan(oldList, newList, i + 1, req, publicIp)
                  ELSE UnassignScan(oldList, newList, i + 1,
                                    Append(req, publicIp), backUp)

Unassign(old, new) == UnassignScan(SetList(old), SetList(new), 1, <<>>, 0)

\* Lines 402-422: the new addresses to associate.  An address that is not in
\* the old set goes into the request, unless the request's length plus
\* eipSetLength plus one is NAT_EIP_MAX_LIMIT: then it becomes backUpNewIp.
RECURSIVE AssignScan(_, _, _, _, _, _)
AssignScan(newList, oldList, eipSetLength, i, req, backUp) ==
    IF i > Len(newList) THEN [req |-> req, backUp |-> backUp]
    ELSE LET publicIp == newList[i]
             isIn == \E j \in 1..Len(oldList) : publicIp = oldList[j]
         IN  IF isIn THEN AssignScan(newList, oldList, eipSetLength, i + 1, req, backUp)
             ELSE IF Len(req) + eipSetLength + 1 = NAT_EIP_MAX_LIMIT
                  THEN AssignScan(newList, oldList, eipSetLength, i + 1, req, publicIp)
                  ELSE AssignScan(newList, oldList, eipSetLength, i + 1,
                                  Append(req, publicIp), backUp)

\* eipSetLength is the length of the new set (lines 348-352).
Assign(old, new) ==
    AssignScan(SetList(new), SetList(old), Cardinality(new), 1, <<>>, 0)

\* The next of Update's EIP requests that is sent at all once the Associate
\* request is built, from stage k on: lines 423, 440 and 457 skip an empty
\* request.
EipStep(k, unassigned, assigned, keptOld, keptNew) ==
    CASE k <= 2 /\ Len(assigned) > 0 -> "eip_assign"
      [] k <= 3 /\ keptOld # 0 -> "eip_unassign_backup"
      [] k <= 4 /\ keptNew # 0 -> "eip_assign_backup"
      [] OTHER -> "update_tags"

\* The arguments of the resource that Update looks at.
UpdateArgs == {"zone", "name", "bandwidth", "max_concurrent", "assigned_eip_set", "tags"}

\* d.HasChange(k).
HasChange(k) == k \in changed

\* fmt.Errorf("argument `%s` cannot be changed", v); the message is kept
\* without its backquotes.
CannotBeChanged(v) == "argument " \o v \o " cannot be changed"

\* for _, v := range immutableArgs { if d.HasChange(v) { return ... } }: whether
\* the loop returns, and the argument it returns for.
AnyChanged(args) == \E i \in 1..Len(args) : HasChange(args[i])

FirstChanged(args) ==
    args[CHOOSE i \in 1..Len(args) :
            HasChange(args[i]) /\ \A j \in 1..(i - 1) : ~HasChange(args[j])]

\* An Update that takes no argument for immutable.
NatImmutableArgsNone == <<>>

\* immutableArgs of the NAT gateway's Update.
NatImmutableArgs == <<"zone">>

\* Update is entered with the arguments that changed; assigned_eip_set counts
\* as changed exactly when its old and new value differ, and the gateway is
\* bound to the old value.
UpdateEnter(ch, old, new) ==
    /\ ("assigned_eip_set" \in ch) <=> (old # new)
    /\ Enter("NatUpdate", "update_zone", NatId, {}, NoCfg)
    /\ changed' = ch
    /\ oldEipSet' = old
    /\ newEipSet' = new
    /\ bound' = old

\* The values of assigned_eip_set the updates of Spec move between.
FewEipSets ==
    {s \in EipSets : s \subseteq 1..FewEips \/ (1 \in s /\ Cardinality(s) >= MaxItems - 2)}

NatUpdateBegin ==
    /\ Idle
    /\ \E ch \in SUBSET UpdateArgs, old \in FewEipSets, new \in FewEipSets :
         UpdateEnter(ch, old, new)

\* resourceTencentCloudNatGatewayUpdate, lines 285-291: zone is immutable.
NatUpdateZone ==
    /\ op = "NatUpdate" /\ pc = "update_zone"
    /\ IF AnyChanged(NatImmutableArgs)
       THEN Return(CannotBeChanged(FirstChanged(NatImmutableArgs)))
       ELSE pc' = "update_attr" /\ err' = err
    /\ UNCHANGED <<op, id, attrs, loop, acked, obs, eipVars, changed, cfg,
                   id0, attrs0, resp, seen>>

\* Lines 297-308: name and bandwidth go into one ModifyNatGatewayAttribute.
NatUpdateAttr ==
    /\ op = "NatUpdate" /\ pc = "update_attr"
    /\ pc' = IF HasChange("name") \/ HasChange("bandwidth") THEN "update_modify"
             ELSE "update_conc"
    /\ UNCHANGED <<op, id, attrs, err, loop, acked, obs, eipVars, changed, cfg,
                   id0, attrs0, resp, seen>>

\* Lines 309-321.
NatUpdateModify ==
    /\ op = "NatUpdate" /\ pc = "update_modify"
    /\ \E e \in ErrCodes \cup {"nil"} :
         InRetry("ModifyNatGatewayAttribute", id,
                 IF e = "nil" THEN "ok" ELSE retryError(e, {}),
                 ReadRetryBudget, e,
                 GoAcked("update_conc", "ModifyNatGatewayAttribute"))
    /\ UNCHANGED <<obs, changed, cfg, id0, attrs0, resp, seen>>

\* Line 324: max_concurrent.
NatUpdateConc ==
    /\ op = "NatUpdate" /\ pc = "update_conc"
    /\ pc' = IF HasChange("max_concurrent") THEN "update_reset" ELSE "update_eip"
    /\ UNCHANGED <<op, id, attrs, err, loop, acked, obs, eipVars, changed, cfg,
                   id0, attrs0, resp, seen>>

\* Lines 330-342: ResetNatGatewayConnection, InternalError retried too.
NatUpdateReset ==
    /\ op = "NatUpdate" /\ pc = "update_reset"
    /\ \E e \in ErrCodes \cup {"nil"} :
         InRetry("ResetNatGatewayConnection", id,
                 IF e = "nil" THEN "ok" ELSE retryError(e, {InternalError}),
                 ReadRetryBudget, e,
                 GoAcked("update_eip", "ResetNatGatewayConnection"))
    /\ UNCHANGED <<obs, changed, cfg, id0, attrs0, resp, seen>>

\* Lines 347-386: assigned_eip_set changed.  The Disassociate request and
\* backUpOldIp are built; an empty request is not sent.
NatUpdateEip ==
    /\ op = "NatUpdate" /\ pc = "update_eip"
    /\ IF HasChange("assigned_eip_set")
       THEN /\ unassignedRequest' = Unassign(oldEipSet, newEipSet).req
            /\ backUpOldIp' = Unassign(oldEipSet, newEipSet).backUp
            /\ pc' = IF Len(unassignedRequest') > 0 THEN "eip_unassign"
                     ELSE "eip_sleep"
       ELSE /\ pc' = "update_tags"
            /\ UNCHANGED <<backUpOldIp, unassignedRequest>>
    /\ UNCHANGED <<op, id, attrs, err, loop, acked, obs, changed, cfg,
                   oldEipSet, newEipSet, bound, backUpNewIp, assignedRequest,
                   id0, attrs0, resp, seen>>

\* Lines 386-398: the old addresses are disassociated.
NatEipUnassign ==
    /\ op = "NatUpdate" /\ pc = "eip_unassign"
    /\ \E e \in ErrCodes \cup {"nil"} :
         InRetry("DisassociateNatGatewayAddress", unassignedRequest,
                 IF e = "nil" THEN "ok" ELSE retryError(e, {}),
                 ReadRetryBudget, e,
                 /\ bound' = bound \ Elems(unassignedRequest)
                 /\ pc' = "eip_sleep"
                 /\ acked' = acked \cup {"DisassociateNatGatewayAddress"}
                 /\ UNCHANGED <<err, id, attrs, oldEipSet, newEipSet,
                                backUpOldIp, backUpNewIp, unassignedRequest,
                                assignedRequest>>)
    /\ UNCHANGED <<obs, changed, cfg, id0, attrs0, resp, seen>>

\* Lines 400-422, after the Disassociate request and time.Sleep: the
\* Associate request and backUpNewIp are built.
NatEipSleep ==
    /\ op = "NatUpdate" /\ pc = "eip_sleep"
    /\ assignedRequest' = Assign(oldEipSet, newEipSet).req
    /\ backUpNewIp' = Assign(oldEipSet, newEipSet).backUp
    /\ pc' = EipStep(2, unassignedRequest, assignedRequest', backUpOldIp,
                     backUpNewIp')
    /\ UNCHANGED <<op, id, attrs, err, loop, acked, obs, changed, cfg,
                   oldEipSet, newEipSet, bound, backUpOldIp, unassignedRequest,
                   id0, attrs0, resp, seen>>

\* Lines 423-437: the new addresses are associated.
NatEipAssign ==
    /\ op = "NatUpdate" /\ pc = "eip_assign"
    /\ \E e \in ErrCodes \cup {"nil"} :
         InRetry("AssociateNatGatewayAddress", assignedRequest,
                 IF e = "nil" THEN "ok" ELSE retryError(e, {}),
                 ReadRetryBudget, e,
                 /\ bound' = bound \cup Elems(assignedRequest)
                 /\ pc' = EipStep(3, unassignedRequest, assignedRequest,
                                  backUpOldIp, backUpNewIp)
                 /\ acked' = acked \cup {"AssociateNatGatewayAddress"}
                 /\ UNCHANGED <<err, id, attrs, oldEipSet, newEipSet,
                                backUpOldIp, backUpNewIp, unassignedRequest,
                                assignedRequest>>)
    /\ UNCHANGED <<obs, changed, cfg, id0, attrs0, resp, seen>>

\* Lines 440-456: the old address that was kept is disassociated.
NatEipUnassignBackup ==
    /\ op = "NatUpdate" /\ pc = "eip_unassign_backup"
    /\ \E e \in ErrCodes \cup {"nil"} :
         InRetry("DisassociateNatGatewayAddress.backup", <<backUpOldIp>>,
                 IF e = "nil" THEN "ok" ELSE retryError(e, {}),
                 ReadRetryBudget, e,
                 /\ bound' = bound \ {backUpOldIp}
                 /\ pc' = EipStep(4, unassignedRequest, assignedRequest,
                                  backUpOldIp, backUpNewIp)
                 /\ acked' = acked \cup {"DisassociateNatGatewayAddress.backup"}
                 /\ UNCHANGED <<err, id, attrs, oldEipSet, newEipSet,
                                backUpOldIp, backUpNewIp, unassignedRequest,
                                assignedRequest>>)
    /\ UNCHANGED <<obs, changed, cfg, id0, attrs0, resp, seen>>

\* Lines 457-475: the new address that was held back is associated.
NatEipAssignBackup ==
    /\ op = "NatUpdate" /\ pc = "eip_assign_backup"
    /\ \E e \in ErrCodes \cup {"nil"} :
         InRetry("AssociateNatGatewayAddress.backup", <<backUpNewIp>>,
                 IF e = "nil" THEN "ok" ELSE retryError(e, {}),
                 ReadRetryBudget, e,
                 /\ bound' = bound \cup {backUpNewIp}
                 /\ pc' = "update_tags"
                 /\ acked' = acked \cup {"AssociateNatGatewayAddress.backup"}
                 /\ UNCHANGED <<err, id, attrs, oldEipSet, newEipSet,
                                backUpOldIp, backUpNewIp, unassignedRequest,
                                assignedRequest>>)
    /\ UNCHANGED <<obs, changed, cfg, id0, attrs0, resp, seen>>

\* Lines 480-496: changed tags are written with one ModifyTags call.
NatUpdateTags ==
    /\ op = "NatUpdate" /\ pc = "update_tags"
    /\ IF HasChange("tags")
       THEN \E e \in ErrCodes \cup {"nil"} :
              Once("ModifyTags", id, IF e = "nil" THEN "ok" ELSE "fatal", e,
                   /\ Return("nil")
                   /\ acked' = acked \cup {"ModifyTags"}
                   /\ UNCHANGED <<id, attrs, eipVars>>)
       ELSE /\ Return("nil")
            /\ UNCHANGED <<op, id, attrs, loop, acked, eipVars>>
    /\ UNCHANGED <<obs, changed, cfg, id0, attrs0, resp, seen>>

NextNatUpdate ==
    \/ NatUpdateBegin
    \/ NatUpdateZone
    \/ NatUpdateAttr
    \/ NatUpdateModify
    \/ NatUpdateConc
    \/ NatUpdateReset
    \/ NatUpdateEip
    \/ NatEipUnassign
    \/ NatEipSleep
    \/ NatEipAssign
    \/ NatEipUnassignBackup
    \/ NatEipAssignBackup
    \/ NatUpdateTags

\* Update is entered with assigned_eip_set as the only changed argument, for
\* every pair of values.
NatUpdateBeginEip ==
    /\ Idle
    /\ \E old \in EipSets, new \in EipSets :
         UpdateEnter({"assigned_eip_set"}, old, new)

NextEip ==
    \/ NatUpdateBeginEip
    \/ NatUpdateZone
    \/ NatUpdateAttr
    \/ NatUpdateConc
    \/ NatUpdateEip
    \/ NatEipUnassign
    \/ NatEipSleep
    \/ NatEipAssign
    \/ NatEipUnassignBackup
    \/ NatEipAssignBackup
    \/ NatUpdateTags
    \/ Finish

(* ------------------------ compound identifiers ------------------------ *)

\* The arguments of remote calls and the values remote calls answer with.
Parts == StringsUpTo(MaxPartLen)

\* The IDs a handler may be entered with: any string, well formed or not.
Ids == StringsUpTo(MaxIdLen)

\* The attributes an earlier apply left in state.
Saved(names) == {<<n, <<"o">>>> : n \in names}

\* A *string: <<>> is nil, <<v>> points to v.
Pointers(values) == {<<>>} \cup {<<v>> : v \in values}

\* A field of a describe's answer: nil, or set by the remote side.
Fields == Pointers({<<"a">>})

\* `if field != nil { _ = d.Set(name, field) }` for each field of an answer,
\* the answer being pairs of an attribute's name and the field's pointer:
\* an attribute whose field is nil keeps what state held.
SetNotNil(as, answer) ==
    {x \in as : \A f \in answer : f[1] = x[1] => f[2] = <<>>}
       \cup {<<f[1], f[2][1]>> : f \in {g \in answer : g[2] # <<>>}}

\* A check that lets an ID of more than two parts through.
IdBrokenLoose(ids) == Len(ids) < 2

\* len(idSplit) != 2: the ID is not of the form a#b.
IdBroken(ids) == Len(ids) # 2

\* The head of Read, Update and Delete: split d.Id() on FILED_SP and return
\* the error e unless there are exactly two parts.
ParseId(e, next) ==
    /\ IF IdBroken(Split(id, FILED_SP))
       THEN Return(e)
       ELSE /\ pc' = next
            /\ err' = err
    /\ UNCHANGED <<op, id, attrs, loop, acked, obs, eipVars, changed, cfg,
                   id0, attrs0, resp, seen>>

\* A handler whose body is `return nil`.
ReturnNil ==
    /\ Return("nil")
    /\ UNCHANGED <<op, id, attrs, loop, acked, obs, eipVars, changed, cfg,
                   id0, attrs0, resp, seen>>

\* The outcome of a call whose error goes through retryError(e).
Outcome(e) == IF e = "nil" THEN "ok" ELSE retryError(e, {})

\* The outcome of a call outside resource.Retry: any error is returned.
Plain(e) == IF e = "nil" THEN "ok" ELSE "fatal"

Answers == ErrCodes \cup {"nil"}

(* ----------------------- monitor tmp_cvm_agent ------------------------ *)

TmpCvmAgentBegin ==
    /\ Idle
    /\ \/ \E p1 \in Parts, p2 \in Parts :
            Enter("TmpCvmAgentCreate", "create", <<>>, {}, [p1 |-> p1, p2 |-> p2])
       \/ \E i \in Ids :
            Enter("TmpCvmAgentRead", "read_parse", i,
                  Saved({"instance_id", "name", "agent_id"}), NoCfg)
       \/ \E i \in Ids :
            Enter("TmpCvmAgentDelete", "delete", i,
                  Saved({"instance_id", "name", "agent_id"}), NoCfg)
    /\ NoChange

\* resourceTencentCloudMonitorTmpCvmAgentCreate: CreatePrometheusAgent inside
\* Retry, then SetId(instance_id # AgentId of the response).  cfg.p1 is
\* instance_id, cfg.p2 is name.
TmpCvmAgentCreate ==
    /\ op = "TmpCvmAgentCreate" /\ pc = "create"
    /\ \E e \in Answers, agentId \in Parts :
         /\ InRetry("CreatePrometheusAgent", <<cfg.p1, cfg.p2>>, Outcome(e),
                    WriteRetryBudget, e,
                    /\ acked' = acked \cup {"CreatePrometheusAgent"}
                    /\ id' = Join(<<cfg.p1, agentId>>, FILED_SP)
                    /\ pc' = "read_parse"
                    /\ UNCHANGED <<err, attrs, eipVars>>)
         /\ resp' = IF e = "nil" THEN agentId ELSE resp
    /\ UNCHANGED <<obs, changed, cfg, id0, attrs0, seen>>

TmpCvmAgentReadParse ==
    /\ op \in {"TmpCvmAgentCreate", "TmpCvmAgentRead"} /\ pc = "read_parse"
    /\ ParseId("id is broken", "read_call")

\* resourceTencentCloudMonitorTmpCvmAgentRead after the split: one describe;
\* a missing agent clears the ID and is an error, otherwise the fields of the
\* agent that are not nil are written.
TmpCvmAgentReadDescribe ==
    /\ op \in {"TmpCvmAgentCreate", "TmpCvmAgentRead"} /\ pc = "read_call"
    /\ LET ids == Split(id, FILED_SP)
       IN  \E e \in Answers, found \in BOOLEAN,
              InstanceId \in Fields, Name \in Fields,
              AgentId \in Fields :
             /\ Once("DescribeMonitorTmpCvmAgent", <<ids[1], ids[2]>>, Plain(e), e,
                     IF ~found
                     THEN /\ Return("resource tmpCvmAgent does not exist")
                          /\ id' = <<>>
                          /\ UNCHANGED <<attrs, acked, eipVars>>
                     ELSE /\ Return("nil")
                          /\ attrs' = SetNotNil(attrs,
                                         {<<"instance_id", InstanceId>>,
                                          <<"name", Name>>,
                                          <<"agent_id", AgentId>>})
                          /\ UNCHANGED <<id, acked, eipVars>>)
             /\ seen' = Seen(e, IF found THEN 1 ELSE 0)
    /\ UNCHANGED <<obs, changed, cfg, id0, attrs0, resp>>

\* resourceTencentCloudMonitorTmpCvmAgentDelete.
TmpCvmAgentDelete ==
    /\ op = "TmpCvmAgentDelete" /\ pc = "delete"
    /\ ReturnNil

NextTmpCvmAgent ==
    \/ TmpCvmAgentBegin
    \/ TmpCvmAgentCreate
    \/ TmpCvmAgentReadParse
    \/ TmpCvmAgentReadDescribe
    \/ TmpCvmAgentDelete

(* ----------------- scf function_event_invoke_config ------------------- *)

ScfBegin ==
    /\ Idle
    /\ \/ \E p1 \in Parts, p2 \in Parts :
            Enter("ScfCreate", "create", <<>>, {}, [p1 |-> p1, p2 |-> p2])
       \/ \E i \in Ids :
            Enter("ScfUpdate", "update_parse", i,
                  Saved({"function_name", "namespace"}), NoCfg)
       \/ \E i \in Ids :
            Enter("ScfRead", "read_parse", i,
                  Saved({"function_name", "namespace"}), NoCfg)
       \/ \E i \in Ids :
            Enter("ScfDelete", "delete", i,
                  Saved({"function_name", "namespace"}), NoCfg)
    /\ NoChange

\* resourceTencentCloudScfFunctionEventInvokeConfigCreate: SetId(function_name
\* + FILED_SP + namespace), then Update.  cfg.p1 is function_name, cfg.p2 is
\* namespace.
ScfCreate ==
    /\ op = "ScfCreate" /\ pc = "create"
    /\ id' = cfg.p1 \o <<FILED_SP>> \o cfg.p2
    /\ pc' = "update_parse"
    /\ UNCHANGED <<op, attrs, err, loop, acked, obs, eipVars, changed, cfg,
                   id0, attrs0, resp, seen>>

ScfUpdateParse ==
    /\ op \in {"ScfCreate", "ScfUpdate"} /\ pc = "update_parse"
    /\ ParseId("id is broken", "update_call")

\* resourceTencentCloudScfFunctionEventInvokeConfigUpdate after the split:
\* UpdateFunctionEventInvokeConfig inside Retry for namespace idSplit[1] and
\* function idSplit[0], then Read.
ScfUpdateCall ==
    /\ op \in {"ScfCreate", "ScfUpdate"} /\ pc = "update_call"
    /\ LET idSplit == Split(id, FILED_SP)
           functionName == idSplit[1]
           namespace == idSplit[2]
       IN  \E e \in Answers :
             InRetry("UpdateFunctionEventInvokeConfig",
                     <<namespace, functionName>>, Outcome(e),
                     WriteRetryBudget, e,
                     GoAcked("read_parse", "UpdateFunctionEventInvokeConfig"))
    /\ UNCHANGED <<obs, changed, cfg, id0, attrs0, resp, seen>>

ScfReadParse ==
    /\ op \in {"ScfCreate", "ScfUpdate", "ScfRead"} /\ pc = "read_parse"
    /\ ParseId("id is broken", "read_call")

\* resourceTencentCloudScfFunctionEventInvokeConfigRead after the split: one
\* describe; a missing configuration clears the ID.
ScfReadDescribe ==
    /\ op \in {"ScfCreate", "ScfUpdate", "ScfRead"} /\ pc = "read_call"
    /\ LET idSplit == Split(id, FILED_SP)
           functionName == idSplit[1]
           namespace == idSplit[2]
       IN  \E e \in Answers, found \in BOOLEAN :
             /\ Once("DescribeScfFunctionEventInvokeConfigById",
                     <<namespace, functionName>>, Plain(e), e,
                     IF ~found
                     THEN Gone
                     ELSE /\ Return("nil")
                          /\ attrs' = DSet(DSet(DSet(attrs,
                                        "async_trigger_config", <<"a">>),
                                        "function_name", functionName),
                                        "namespace", namespace)
                          /\ UNCHANGED <<id, acked, eipVars>>)
             /\ seen' = Seen(e, IF found THEN 1 ELSE 0)
    /\ UNCHANGED <<obs, changed, cfg, id0, attrs0, resp>>

\* resourceTencentCloudScfFunctionEventInvokeConfigDelete.
ScfDelete ==
    /\ op = "ScfDelete" /\ pc = "delete"
    /\ ReturnNil

NextScf ==
    \/ ScfBegin
    \/ ScfCreate
    \/ ScfUpdateParse
    \/ ScfUpdateCall
    \/ ScfReadParse
    \/ ScfReadDescribe
    \/ ScfDelete

(* ------------------- tdmq namespace_role_attachment ------------------- *)

NamespaceRoleAttrs == {"environ_id", "role_name", "permissions", "create_time"}

NamespaceRoleAttachmentBegin ==
    /\ Idle
    /\ \/ \E p1 \in Parts, p2 \in Parts :
            Enter("NamespaceRoleCreate", "create", <<>>, {},
                  [p1 |-> p1, p2 |-> p2])
       \/ \E i \in Ids :
            Enter("NamespaceRoleUpdate", "update_parse", i,
                  Saved(NamespaceRoleAttrs), NoCfg)
       \/ \E i \in Ids :
            Enter("NamespaceRoleRead", "read_parse", i,
                  Saved(NamespaceRoleAttrs), NoCfg)
       \/ \E i \in Ids :
            Enter("NamespaceRoleDelete", "delete_parse", i,
                  Saved(NamespaceRoleAttrs), NoCfg)
    /\ NoChange

\* The create call put into a retry loop that repeats it on any error.
NamespaceRoleAttachmentCreateRetried ==
    /\ op = "NamespaceRoleCreate" /\ pc = "create"
    /\ \E e \in Answers :
         InRetry("CreateTdmqNamespaceRoleAttachment", <<cfg.p1, cfg.p2>>,
                 IF e = "nil" THEN "ok" ELSE "retryable", WriteRetryBudget, e,
                 /\ acked' = acked \cup {"CreateTdmqNamespaceRoleAttachment"}
                 /\ id' = cfg.p1 \o <<FILED_SP>> \o cfg.p2
                 /\ pc' = "read_parse"
                 /\ UNCHANGED <<err, attrs, eipVars>>)
    /\ UNCHANGED <<obs, changed, cfg, id0, attrs0, resp, seen>>

\* resourceTencentCloudTdmqNamespaceRoleAttachmentCreate: one create call, then
\* SetId(environ_id + FILED_SP + role_name) and Read.  cfg.p1 is environ_id,
\* cfg.p2 is role_name.
NamespaceRoleAttachmentCreate ==
    /\ op = "NamespaceRoleCreate" /\ pc = "create"
    /\ \E e \in Answers :
         Once("CreateTdmqNamespaceRoleAttachment", <<cfg.p1, cfg.p2>>,
              Plain(e), e,
              /\ acked' = acked \cup {"CreateTdmqNamespaceRoleAttachment"}
              /\ id' = cfg.p1 \o <<FILED_SP>> \o cfg.p2
              /\ pc' = "read_parse"
              /\ UNCHANGED <<err, attrs, eipVars>>)
    /\ UNCHANGED <<obs, changed, cfg, id0, attrs0, resp, seen>>

NamespaceRoleAttachmentUpdateParse ==
    /\ op = "NamespaceRoleUpdate" /\ pc = "update_parse"
    /\ ParseId("environment role id is borken", "update_call")

\* resourceTencentCloudTdmqNamespaceRoleAttachmentUpdate after the split: one
\* modify call, then Read.
NamespaceRoleAttachmentUpdateCall ==
    /\ op = "NamespaceRoleUpdate" /\ pc = "update_call"
    /\ LET idSplit == Split(id, FILED_SP)
       IN  \E e \in Answers :
             Once("ModifyTdmqNamespaceRoleAttachment",
                  <<idSplit[1], idSplit[2]>>, Plain(e), e,
                  GoAcked("read_parse", "ModifyTdmqNamespaceRoleAttachment"))
    /\ UNCHANGED <<obs, changed, cfg, id0, attrs0, resp, seen>>

NamespaceRoleAttachmentReadParse ==
    /\ op \in {"NamespaceRoleCreate", "NamespaceRoleUpdate", "NamespaceRoleRead"}
    /\ pc = "read_parse"
    /\ ParseId("environment role id is borken", "read_call")

\* d.Set(name, p) for a pointer p: nil writes the zero value of the attribute,
\* otherwise the value pointed to.
SetPointer(as, name, p) == DSet(as, name, IF p = <<>> THEN <<>> ELSE p[1])

\* resourceTencentCloudTdmqNamespaceRoleAttachmentRead after the split: the
\* describe inside Retry; a missing attachment clears the ID, otherwise the
\* four fields of the answer are written, nil or not.
NamespaceRoleAttachmentReadDescribe ==
    /\ op \in {"NamespaceRoleCreate", "NamespaceRoleUpdate", "NamespaceRoleRead"}
    /\ pc = "read_call"
    /\ LET idSplit == Split(id, FILED_SP)
           environId == idSplit[1]
           roleName == idSplit[2]
       IN  \E e \in Answers, has \in BOOLEAN,
              EnvironmentId \in Fields, RoleName \in Fields,
              Permissions \in Fields, CreateTime \in Fields :
             /\ InRetry("DescribeTdmqNamespaceRoleAttachment",
                        <<environId, roleName>>, Outcome(e), ReadRetryBudget, e,
                        IF ~has
                        THEN Gone
                        ELSE /\ Return("nil")
                             /\ attrs' = SetPointer(SetPointer(SetPointer(
                                            SetPointer(attrs,
                                              "environ_id", EnvironmentId),
                                              "role_name", RoleName),
                                              "permissions", Permissions),
                                              "create_time", CreateTime)
                             /\ UNCHANGED <<id, acked, eipVars>>)
             /\ seen' = Seen(e, IF has THEN 1 ELSE 0)
    /\ UNCHANGED <<obs, changed, cfg, id0, attrs0, resp>>

NamespaceRoleAttachmentDeleteParse ==
    /\ op = "NamespaceRoleDelete" /\ pc = "delete_parse"
    /\ ParseId("environment role id is borken", "delete_call")

\* resourceTencentCloudTdmqNamespaceRoleAttachmentDelete after the split: the
\* delete inside Retry; VPCNotFound counts as deleted, any other error is
\* retried.
NamespaceRoleAttachmentDeleteCall ==
    /\ op = "NamespaceRoleDelete" /\ pc = "delete_call"
    /\ LET idSplit == Split(id, FILED_SP)
       IN  \E e \in Answers :
             InRetry("DeleteTdmqNamespaceRoleAttachment",
                     <<idSplit[1], idSplit[2]>>,
                     IF e = "nil" \/ e = VPCNotFound THEN "ok" ELSE "retryable",
                     WriteRetryBudget, e,
                     /\ Return("nil")
                     /\ acked' = IF e = "nil"
                                 THEN acked \cup {"DeleteTdmqNamespaceRoleAttachment"}
                                 ELSE acked
                     /\ UNCHANGED <<id, attrs, eipVars>>)
    /\ UNCHANGED <<obs, changed, cfg, id0, attrs0, resp, seen>>

NextNamespaceRoleAttachment ==
    \/ NamespaceRoleAttachmentBegin
    \/ NamespaceRoleAttachmentCreate
    \/ NamespaceRoleAttachmentUpdateParse
    \/ NamespaceRoleAttachmentUpdateCall
    \/ NamespaceRoleAttachmentReadParse
    \/ NamespaceRoleAttachmentReadDescribe
    \/ NamespaceRoleAttachmentDeleteParse
    \/ NamespaceRoleAttachmentDeleteCall

(* ------------------------- tdmq rabbitmq_user ------------------------- *)

RabbitmqUserAttrs == {"instance_id", "user", "password", "description", "tags"}

\* The arguments of rabbitmq_user Update looks at with d.HasChange.
RabbitmqUserArgs ==
    {"instance_id", "user", "password", "description", "max_connections",
     "max_channels"}

\* immutableArgs with password left out.
immutableArgsShort == <<"instance_id", "user">>

\* immutableArgs of rabbitmq_user's Update, in order.
immutableArgs == <<"instance_id", "user", "password">>

RabbitmqUserBegin ==
    /\ Idle
    /\ \/ /\ \E p1 \in Parts, p2 \in Parts :
               Enter("RabbitmqUserCreate", "create", <<>>, {},
                     [p1 |-> p1, p2 |-> p2])
          /\ NoChange
       \/ /\ \E i \in Ids :
               Enter("RabbitmqUserUpdate", "update_parse", i,
                     Saved(RabbitmqUserAttrs), NoCfg)
          /\ \E ch \in SUBSET RabbitmqUserArgs : changed' = ch
          /\ oldEipSet' = {} /\ newEipSet' = {} /\ bound' = {}
       \/ /\ \E i \in Ids :
               Enter("RabbitmqUserRead", "read_parse", i,
                     Saved(RabbitmqUserAttrs), NoCfg)
          /\ NoChange
       \/ /\ \E i \in Ids :
               Enter("RabbitmqUserDelete", "delete_parse", i,
                     Saved(RabbitmqUserAttrs), NoCfg)
          /\ NoChange

\* resourceTencentCloudTdmqRabbitmqUserCreate: CreateRabbitMQUser inside Retry,
\* then SetId(instance_id # User of the response) and Read.  cfg.p1 is
\* instance_id, cfg.p2 is user.
RabbitmqUserCreate ==
    /\ op = "RabbitmqUserCreate" /\ pc = "create"
    /\ \E e \in Answers, user \in Parts :
         /\ InRetry("CreateRabbitMQUser", <<cfg.p1, cfg.p2>>, Outcome(e),
                    WriteRetryBudget, e,
                    /\ acked' = acked \cup {"CreateRabbitMQUser"}
                    /\ id' = Join(<<cfg.p1, user>>, FILED_SP)
                    /\ pc' = "read_parse"
                    /\ UNCHANGED <<err, attrs, eipVars>>)
         /\ resp' = IF e = "nil" THEN user ELSE resp
    /\ UNCHANGED <<obs, changed, cfg, id0, attrs0, seen>>

\* resourceTencentCloudTdmqRabbitmqUserUpdate up to its request: the split,
\* then the immutable arguments, then whether anything is to be modified.
RabbitmqUserUpdateParse ==
    /\ op = "RabbitmqUserUpdate" /\ pc = "update_parse"
    /\ IF IdBroken(Split(id, FILED_SP))
       THEN Return("id is broken")
       ELSE IF AnyChanged(immutableArgs)
       THEN Return(CannotBeChanged(FirstChanged(immutableArgs)))
       ELSE /\ pc' = IF \/ HasChange("description")
                        \/ HasChange("max_connections")
                        \/ HasChange("max_channels")
                     THEN "update_call" ELSE "read_parse"
            /\ err' = err
    /\ UNCHANGED <<op, id, attrs, loop, acked, obs, eipVars, changed, cfg,
                   id0, attrs0, resp, seen>>

\* ModifyRabbitMQUser inside Retry, then Read.
RabbitmqUserUpdateCall ==
    /\ op = "RabbitmqUserUpdate" /\ pc = "update_call"
    /\ LET idSplit == Split(id, FILED_SP)
       IN  \E e \in Answers :
             InRetry("ModifyRabbitMQUser", <<idSplit[1], idSplit[2]>>,
                     Outcome(e), WriteRetryBudget, e,
                     GoAcked("read_parse", "ModifyRabbitMQUser"))
    /\ UNCHANGED <<obs, changed, cfg, id0, attrs0, resp, seen>>

RabbitmqUserReadParse ==
    /\ op \in {"RabbitmqUserCreate", "RabbitmqUserUpdate", "RabbitmqUserRead"}
    /\ pc = "read_parse"
    /\ ParseId("id is broken", "read_call")

\* resourceTencentCloudTdmqRabbitmqUserRead after the split: one describe; a
\* missing user clears the ID, otherwise the fields of the user that are not
\* nil are written.
RabbitmqUserReadDescribe ==
    /\ op \in {"RabbitmqUserCreate", "RabbitmqUserUpdate", "RabbitmqUserRead"}
    /\ pc = "read_call"
    /\ LET idSplit == Split(id, FILED_SP)
           instanceId == idSplit[1]
           user == idSplit[2]
       IN  \E e \in Answers, found \in BOOLEAN,
              InstanceId \in Fields, User \in Fields,
              Password \in Fields, Description \in Fields,
              Tags \in Fields :
             /\ Once("DescribeTdmqRabbitmqUserById", <<instanceId, user>>,
                     Plain(e), e,
                     IF ~found
                     THEN Gone
                     ELSE /\ Return("nil")
                          /\ attrs' = SetNotNil(attrs,
                                         {<<"instance_id", InstanceId>>,
                                          <<"user", User>>,
                                          <<"password", Password>>,
                                          <<"description", Description>>,
                                          <<"tags", Tags>>})
                          /\ UNCHANGED <<id, acked, eipVars>>)
             /\ seen' = Seen(e, IF found THEN 1 ELSE 0)
    /\ UNCHANGED <<obs, changed, cfg, id0, attrs0, resp>>

RabbitmqUserDeleteParse ==
    /\ op = "RabbitmqUserDelete" /\ pc = "delete_parse"
    /\ ParseId("id is broken", "delete_call")

\* resourceTencentCloudTdmqRabbitmqUserDelete after the split: one delete call.
RabbitmqUserDeleteCall ==
    /\ op = "RabbitmqUserDelete" /\ pc = "delete_call"
    /\ LET idSplit == Split(id, FILED_SP)
       IN  \E e \in Answers :
             Once("DeleteTdmqRabbitmqUserById", <<idSplit[1], idSplit[2]>>,
                  Plain(e), e,
                  /\ Return("nil")
                  /\ acked' = acked \cup {"DeleteTdmqRabbitmqUserById"}
                  /\ UNCHANGED <<id, attrs, eipVars>>)
    /\ UNCHANGED <<obs, changed, cfg, id0, attrs0, resp, seen>>

NextRabbitmqUser ==
    \/ RabbitmqUserBegin
    \/ RabbitmqUserCreate
    \/ RabbitmqUserUpdateParse
    \/ RabbitmqUserUpdateCall
    \/ RabbitmqUserReadParse
    \/ RabbitmqUserReadDescribe
    \/ RabbitmqUserDeleteParse
    \/ RabbitmqUserDeleteCall

(* ------------------------ wedata rule_template ------------------------ *)

\* immutableArgs with where_flag left out.
WedataImmutableArgsShort ==
    <<"type", "name", "quality_dim", "source_object_type", "description",
      "source_engine_types", "multi_source_flag", "sql_expression",
      "project_id">>

\* immutableArgs of resourceTencentCloudWedataRuleTemplateUpdate, in order.
WedataImmutableArgs ==
    <<"type", "name", "quality_dim", "source_object_type", "description",
      "source_engine_types", "multi_source_flag", "sql_expression",
      "project_id", "where_flag">>

\* The arguments of the schema, each with the field of ModifyRuleTemplateRequest
\* that Update fills from it when d.HasChange reports it (lines 466-528).
WedataArgs ==
    <<"type", "name", "quality_dim", "source_object_type", "description",
      "source_engine_types", "multi_source_flag", "sql_expression",
      "project_id", "where_flag">>

WedataField(arg) ==
    CASE arg = "type" -> "Type"
      [] arg = "name" -> "Name"
      [] arg = "quality_dim" -> "QualityDim"
      [] arg = "source_object_type" -> "SourceObjectType"
      [] arg = "description" -> "Description"
      [] arg = "source_engine_types" -> "SourceEngineTypes"
      [] arg = "multi_source_flag" -> "MultiSourceFlag"
      [] arg = "sql_expression" -> "SqlExpression"
      [] arg = "project_id" -> "ProjectId"
      [] arg = "where_flag" -> "WhereFlag"

\* The attributes Read writes, each when the template's field is not nil.
WedataReadAttrs ==
    {"type", "name", "quality_dim", "source_object_type", "description",
     "source_engine_types", "multi_source_flag", "sql_expression", "where_flag"}

\* The ID made of the Data field of CreateRuleTemplate's response.
WedataId == <<"w">>

\* The fields of the request Update has built when it reaches its Retry:
\* TemplateId, and one field for each argument that changed.
RECURSIVE WedataRequest(_)
WedataRequest(i) ==
    IF i > Len(WedataArgs) THEN <<>>
    ELSE (IF HasChange(WedataArgs[i]) THEN <<WedataField(WedataArgs[i])>> ELSE <<>>)
            \o WedataRequest(i + 1)

WedataRuleTemplateBegin ==
    /\ Idle
    /\ \/ /\ Enter("WedataCreate", "create", <<>>, {}, NoCfg)
          /\ NoChange
       \/ /\ Enter("WedataUpdate", "update", WedataId, Saved(WedataReadAttrs), NoCfg)
          /\ \E ch \in SUBSET Elems(WedataArgs) :
               /\ Cardinality(ch) <= MaxChanged
               /\ changed' = ch
          /\ oldEipSet' = {} /\ newEipSet' = {} /\ bound' = {}
       \/ /\ Enter("WedataRead", "read", WedataId, Saved(WedataReadAttrs), NoCfg)
          /\ NoChange
       \/ /\ Enter("WedataDelete", "delete", WedataId, Saved(WedataReadAttrs), NoCfg)
          /\ NoChange

\* resourceTencentCloudWedataRuleTemplateCreate: CreateRuleTemplate inside
\* Retry, SetId, then Read.
WedataRuleTemplateCreate ==
    /\ op = "WedataCreate" /\ pc = "create"
    /\ \E e \in Answers :
         InRetry("CreateRuleTemplate", <<>>, Outcome(e), WriteRetryBudget, e,
                 /\ acked' = acked \cup {"CreateRuleTemplate"}
                 /\ id' = WedataId
                 /\ pc' = "read"
                 /\ UNCHANGED <<err, attrs, eipVars>>)
    /\ UNCHANGED <<obs, changed, cfg, id0, attrs0, resp, seen>>

\* resourceTencentCloudWedataRuleTemplateRead: one describe; a nil template
\* clears the ID, otherwise the fields that are not nil are written.
WedataRuleTemplateRead ==
    /\ op \in {"WedataCreate", "WedataUpdate", "WedataRead"} /\ pc = "read"
    /\ \E e \in Answers, found \in BOOLEAN,
          notNil \in {WedataReadAttrs, {"name"}, {}} :
         /\ Once("DescribeWedataRuleTemplateById", id, Plain(e), e,
                 IF ~found
                 THEN Gone
                 ELSE /\ Return("nil")
                      /\ attrs' = {<<n, <<"r">> >> : n \in notNil}
                                     \cup {x \in attrs : x[1] \notin notNil}
                      /\ UNCHANGED <<id, acked, eipVars>>)
         /\ seen' = Seen(e, IF found THEN 1 ELSE 0)
    /\ UNCHANGED <<obs, changed, cfg, id0, attrs0, resp>>

\* resourceTencentCloudWedataRuleTemplateUpdate up to its request: lines
\* 453-464, the immutable arguments.
WedataRuleTemplateUpdate ==
    /\ op = "WedataUpdate" /\ pc = "update"
    /\ IF AnyChanged(WedataImmutableArgs)
       THEN Return(CannotBeChanged(FirstChanged(WedataImmutableArgs)))
       ELSE pc' = "update_call" /\ err' = err
    /\ UNCHANGED <<op, id, attrs, loop, acked, obs, eipVars, changed, cfg,
                   id0, attrs0, resp, seen>>

\* Lines 466-542: the request is filled and ModifyRuleTemplate is sent inside
\* Retry, then Read.
WedataRuleTemplateUpdateCall ==
    /\ op = "WedataUpdate" /\ pc = "update_call"
    /\ \E e \in Answers :
         InRetry("ModifyRuleTemplate", <<"TemplateId">> \o WedataRequest(1),
                 Outcome(e), WriteRetryBudget, e,
                 GoAcked("read", "ModifyRuleTemplate"))
    /\ UNCHANGED <<obs, changed, cfg, id0, attrs0, resp, seen>>

\* resourceTencentCloudWedataRuleTemplateDelete: one delete call.
WedataRuleTemplateDelete ==
    /\ op = "WedataDelete" /\ pc = "delete"
    /\ \E e \in Answers :
         Once("DeleteWedataRuleTemplateById", id, Plain(e), e,
              /\ Return("nil")
              /\ acked' = acked \cup {"DeleteWedataRuleTemplateById"}
              /\ UNCHANGED <<id, attrs, eipVars>>)
    /\ UNCHANGED <<obs, changed, cfg, id0, attrs0, resp, seen>>

NextWedataRuleTemplate ==
    \/ WedataRuleTemplateBegin
    \/ WedataRuleTemplateCreate
    \/ WedataRuleTemplateRead
    \/ WedataRuleTemplateUpdate
    \/ WedataRuleTemplateUpdateCall
    \/ WedataRuleTemplateDelete

(* ---------------------------- emr cluster ----------------------------- *)

\* The status of a cluster that has been created.
EmrInternetStatusCreated == 2

\* The status of a cluster that has been deleted.
EmrInternetStatusDeleted == 201

\* The statuses DescribeInstancesById reports: created, deleted and another.
EmrStatuses == {EmrInternetStatusCreated, 3, EmrInternetStatusDeleted}

\* The error code the waits take for an answer that ends the wait.
ClusterNotFound == "InternalError.ClusterNotFound"

\* What DescribeInstancesById may answer: an error and no cluster, or a list
\* of clusters whose first one has some status; the Status of a cluster is a
\* pointer, -1 standing for nil.
EmrDescribeAnswers ==
    [e : {ClusterNotFound, "UnauthorizedOperation", "RequestLimitExceeded",
          "InvalidParameter"},
     len : {0}, status : {-1}]
      \cup [e : {"nil"}, len : {0}, status : {-1}]
      \cup [e : {"nil"}, len : {1, 2}, status : EmrStatuses]
      \cup [e : {"nil"}, len : {1}, status : {-1}]

\* The ID CreateInstance returns.
EmrId == <<"e">>

\* The result of one poll of a wait of Create, Update or Delete: an error
\* code among `ends` ends the wait, a first cluster in another status than
\* `wanted` and any other error are retried, everything else ends the wait.
\* status := *(clusters[0].Status) ends the handler when Status is nil.
EmrPoll(a, ends, wanted) ==
    CASE a.e \in ends -> "ok"
      [] a.len > 0 /\ a.status = -1 -> "fatal"
      [] a.len > 0 /\ a.status # wanted -> "retryable"
      [] a.e # "nil" -> "retryable"
      [] OTHER -> "ok"

\* The error a wait ends with when its timeout expires.
EmrPollError(a, wanted) ==
    IF a.len > 0 /\ a.status = -1 THEN "panic: nil pointer dereference"
    ELSE IF a.len > 0 /\ a.status # wanted
    THEN "create cluster endpoint status still is"
    ELSE a.e

\* What a describe of the cluster answered.
EmrSeen(a) == [e |-> a.e, len |-> a.len, status |-> a.status, ids |-> <<>>]

EmrClusterBegin ==
    /\ Idle
    /\ \/ /\ Enter("EmrCreate", "create", <<>>, {}, NoCfg)
          /\ NoChange
       \/ /\ Enter("EmrUpdate", "update", EmrId, Saved({"instance_id", "tags"}),
                   NoCfg)
          /\ \E ch \in SUBSET {"tags", "resource_spec.0.master_count",
                               "resource_spec.0.task_count",
                               "resource_spec.0.core_count", "extend_fs_field"} :
               /\ Cardinality(ch) <= MaxChanged
               /\ changed' = ch
          /\ oldEipSet' = {} /\ newEipSet' = {} /\ bound' = {}
       \/ /\ Enter("EmrRead", "read", EmrId, Saved({"instance_id", "tags"}), NoCfg)
          /\ NoChange
       \/ /\ Enter("EmrDelete", "delete", EmrId, Saved({"instance_id", "tags"}),
                   NoCfg)
          /\ NoChange

\* resourceTencentCloudEmrClusterCreate: CreateInstance, SetId and
\* d.Set("instance_id").
EmrClusterCreate ==
    /\ op = "EmrCreate" /\ pc = "create"
    /\ \E e \in Answers :
         Once("CreateInstance", <<>>, Plain(e), e,
              /\ acked' = acked \cup {"CreateInstance"}
              /\ id' = EmrId
              /\ attrs' = DSet(attrs, "instance_id", EmrId)
              /\ pc' = "create_poll"
              /\ UNCHANGED <<err, eipVars>>)
    /\ UNCHANGED <<obs, changed, cfg, id0, attrs0, resp, seen>>

\* Create waits for the cluster: DescribeInstancesById inside Retry.
EmrClusterCreatePoll ==
    /\ op = "EmrCreate" /\ pc = "create_poll"
    /\ \E a \in EmrDescribeAnswers :
         /\ InRetry("DescribeInstancesById", id,
                    EmrPoll(a, {ClusterNotFound}, EmrInternetStatusCreated),
                    EmrRetryBudget,
                    EmrPollError(a, EmrInternetStatusCreated),
                    Go("create_tags"))
         /\ seen' = EmrSeen(a)
    /\ UNCHANGED <<obs, changed, cfg, id0, attrs0, resp>>

\* Lines 393-400: the tags of the configuration are written with ModifyTags.
EmrClusterCreateTags ==
    /\ op = "EmrCreate" /\ pc = "create_tags"
    /\ \E hasTags \in BOOLEAN, e \in Answers :
         IF hasTags
         THEN Once("ModifyTags", id, Plain(e), e,
                   /\ Return("nil")
                   /\ acked' = acked \cup {"ModifyTags"}
                   /\ UNCHANGED <<id, attrs, eipVars>>)
         ELSE /\ e = "nil"
              /\ Return("nil")
              /\ UNCHANGED <<op, loop, id, attrs, acked, eipVars>>
    /\ UNCHANGED <<obs, changed, cfg, id0, attrs0, resp, seen>>

\* resourceTencentCloudEmrClusterUpdate, lines 273-278: time_unit, time_span
\* and pay_mode must be set; then the tags, when they changed.
EmrClusterUpdate ==
    /\ op = "EmrUpdate" /\ pc = "update"
    /\ \E hasTimeUnit \in BOOLEAN, hasTimeSpan \in BOOLEAN, hasPayMode \in BOOLEAN :
         IF ~hasTimeUnit \/ ~hasTimeSpan \/ ~hasPayMode
         THEN Return("Time_unit, time_span or pay_mode must be set.")
         ELSE /\ pc' = IF HasChange("tags") THEN "update_tags" ELSE "update_check"
              /\ err' = err
    /\ UNCHANGED <<op, id, attrs, loop, acked, obs, eipVars, changed, cfg,
                   id0, attrs0, resp, seen>>

\* Lines 279-288: ModifyTags, outside any retry loop.
EmrClusterUpdateTags ==
    /\ op = "EmrUpdate" /\ pc = "update_tags"
    /\ \E e \in Answers :
         Once("ModifyTags", id, Plain(e), e, GoAcked("update_check", "ModifyTags"))
    /\ UNCHANGED <<obs, changed, cfg, id0, attrs0, resp, seen>>

\* Lines 290-317: the scale-out request is filled from the node counts that
\* changed; a changed extend_fs_field is an error, no changed count ends
\* Update.  tmpResourceSpec[0] at line 298 is taken without a look at the
\* list's length: a configuration without the optional resource_spec block
\* (lenResourceSpec = 0) ends the handler there.
EmrClusterUpdateCheck ==
    /\ op = "EmrUpdate" /\ pc = "update_check"
    /\ LET hasChange == \/ HasChange("resource_spec.0.master_count")
                        \/ HasChange("resource_spec.0.task_count")
                        \/ HasChange("resource_spec.0.core_count")
       IN  \E lenResourceSpec \in 0..1 :
             IF lenResourceSpec = 0
             THEN Return("panic: index out of range")
             ELSE IF HasChange("extend_fs_field")
             THEN Return("extend_fs_field not support update.")
             ELSE IF ~hasChange
             THEN Return("nil")
             ELSE pc' = "update_call" /\ err' = err
    /\ UNCHANGED <<op, id, attrs, loop, acked, obs, eipVars, changed, cfg,
                   id0, attrs0, resp, seen>>

\* Lines 318-321: UpdateInstance, outside any retry loop.
EmrClusterUpdateCall ==
    /\ op = "EmrUpdate" /\ pc = "update_call"
    /\ \E e \in Answers :
         Once("UpdateInstance", id, Plain(e), e,
              GoAcked("update_poll", "UpdateInstance"))
    /\ UNCHANGED <<obs, changed, cfg, id0, attrs0, resp, seen>>

\* Lines 322-347: Update waits for the cluster as Create does.
EmrClusterUpdatePoll ==
    /\ op = "EmrUpdate" /\ pc = "update_poll"
    /\ \E a \in EmrDescribeAnswers :
         /\ InRetry("DescribeInstancesById.update", id,
                    EmrPoll(a, {ClusterNotFound}, EmrInternetStatusCreated),
                    EmrRetryBudget,
                    EmrPollError(a, EmrInternetStatusCreated),
                    /\ Return("nil")
                    /\ UNCHANGED <<id, attrs, acked, eipVars>>)
         /\ seen' = EmrSeen(a)
    /\ UNCHANGED <<obs, changed, cfg, id0, attrs0, resp>>

\* resourceTencentCloudEmrClusterDelete, lines 411-419: one describe; no
\* cluster is an error whatever the describe's error was, otherwise the
\* MetaDb field of the first cluster is kept (a *string: nil, "" or a name)
\* and the describe's error is returned.
EmrClusterDelete ==
    /\ op = "EmrDelete" /\ pc = "delete"
    /\ \E a \in EmrDescribeAnswers, metaDB \in Pointers({<<>>, <<"m">>}) :
         /\ Once("DescribeInstancesById.delete", id,
                 IF a.len = 0 THEN "fatal" ELSE Plain(a.e),
                 IF a.len = 0 THEN "Not find clusters." ELSE a.e,
                 Go("delete_call"))
         /\ resp' = IF a.len = 0 THEN resp ELSE metaDB
         /\ seen' = EmrSeen(a)
    /\ UNCHANGED <<obs, changed, cfg, id0, attrs0>>

\* Lines 420-422: DeleteInstance, outside any retry loop.
EmrClusterDeleteCall ==
    /\ op = "EmrDelete" /\ pc = "delete_call"
    /\ \E e \in Answers :
         Once("DeleteInstance", id, Plain(e), e,
              GoAcked("delete_poll", "DeleteInstance"))
    /\ UNCHANGED <<obs, changed, cfg, id0, attrs0, resp, seen>>

\* Lines 423-450: Delete waits until the cluster is deleted; ClusterNotFound
\* and UnauthorizedOperation end the wait.  Line 452: the meta database is
\* removed when the cluster had one.
EmrClusterDeletePoll ==
    /\ op = "EmrDelete" /\ pc = "delete_poll"
    /\ \E a \in EmrDescribeAnswers :
         /\ InRetry("DescribeInstancesById.delete_poll", id,
                    EmrPoll(a, {ClusterNotFound, "UnauthorizedOperation"},
                            EmrInternetStatusDeleted),
                    EmrRetryBudget,
                    EmrPollError(a, EmrInternetStatusDeleted),
                    IF resp # <<>> /\ resp[1] # <<>>
                    THEN Go("delete_metadb")
                    ELSE /\ Return("nil")
                         /\ UNCHANGED <<id, attrs, acked, eipVars>>)
         /\ seen' = EmrSeen(a)
    /\ UNCHANGED <<obs, changed, cfg, id0, attrs0, resp>>

\* Lines 456-466: OfflineIsolatedInstances inside Retry, InternalError being
\* retried too.
EmrClusterDeleteMetaDb ==
    /\ op = "EmrDelete" /\ pc = "delete_metadb"
    /\ \E e \in Answers :
         InRetry("OfflineIsolatedInstances", resp[1],
                 IF e = "nil" THEN "ok" ELSE retryError(e, {InternalError}),
                 WriteRetryBudget, e,
                 /\ Return("nil")
                 /\ acked' = acked \cup {"OfflineIsolatedInstances"}
                 /\ UNCHANGED <<id, attrs, eipVars>>)
    /\ UNCHANGED <<obs, changed, cfg, id0, attrs0, resp, seen>>

\* resourceTencentCloudEmrClusterRead, lines 478-493: one describe inside
\* Retry; ClusterNotFound ends the loop without error, any other error is
\* retried.  The ID is left as it is.
EmrClusterRead ==
    /\ op = "EmrRead" /\ pc = "read"
    /\ \E a \in EmrDescribeAnswers :
         /\ InRetry("DescribeInstancesById.read", id,
                    IF a.e \in {ClusterNotFound, "nil"} THEN "ok" ELSE "retryable",
                    ReadRetryBudget, a.e, Go("read_tags"))
         /\ seen' = EmrSeen(a)
    /\ UNCHANGED <<obs, changed, cfg, id0, attrs0, resp>>

\* Lines 495-503: DescribeResourceTags and d.Set("tags").
EmrClusterReadTags ==
    /\ op = "EmrRead" /\ pc = "read_tags"
    /\ \E e \in Answers :
         Once("DescribeResourceTags.emr", id, Plain(e), e,
              /\ attrs' = DSet(attrs, "tags", <<"r">>)
              /\ Return("nil")
              /\ UNCHANGED <<id, acked, eipVars>>)
    /\ UNCHANGED <<obs, changed, cfg, id0, attrs0, resp, seen>>

NextEmrCluster ==
    \/ EmrClusterBegin
    \/ EmrClusterCreate
    \/ EmrClusterCreatePoll
    \/ EmrClusterCreateTags
    \/ EmrClusterUpdate
    \/ EmrClusterUpdateTags
    \/ EmrClusterUpdateCheck
    \/ EmrClusterUpdateCall
    \/ EmrClusterUpdatePoll
    \/ EmrClusterDelete
    \/ EmrClusterDeleteCall
    \/ EmrClusterDeletePoll
    \/ EmrClusterDeleteMetaDb
    \/ EmrClusterRead
    \/ EmrClusterReadTags

(* ---------------------------- data sources ---------------------------- *)

\* The byte of a character.
Code(c) == IF c = FILED_SP THEN 35 ELSE 97

\* A checksum of a string, character by character.
RECURSIVE HashString(_, _, _)
HashString(str, i, h) ==
    IF i > Len(str) THEN h
    ELSE HashString(str, i + 1, (h * 31 + Code(str[i])) % 65536)

\* fmt.Sprintf("%d", n): the decimal digits of n.
RECURSIVE Digits(_)
Digits(n) ==
    LET d == <<"0", "1", "2", "3", "4", "5", "6", "7", "8", "9">>[(n % 10) + 1]
    IN  IF n < 10 THEN <<d>> ELSE Append(Digits(n \div 10), d)

\* helper.DataResourceIdsHash(ids): the checksum of the ids written one after
\* the other, in the order of the list, as a decimal number.
RECURSIVE Concat(_)
Concat(ids) == IF Len(ids) = 0 THEN <<>> ELSE ids[1] \o Concat(Tail(ids))

DataResourceIdsHash(ids) == Digits(HashString(Concat(ids), 1, 0))

\* The ID field of the routes of an answer.
RouteIds == Pointers(StringsOfLen(1))

\* result.RouteList: up to MaxRoutes routes, each with its ID field.
RECURSIVE RouteLists(_)
RouteLists(n) ==
    IF n = 0 THEN {<<>>}
    ELSE RouteLists(n - 1)
           \cup {Append(l, i) : l \in {x \in RouteLists(n - 1) : Len(x) = n - 1},
                                i \in RouteIds}

\* What DescribeTseGatewayRoutesByFilter returns without error: a nil result,
\* or a result with its RouteList.
TseResults ==
    {[isNil |-> TRUE, RouteList |-> <<>>]}
      \cup [isNil : {FALSE}, RouteList : RouteLists(MaxRoutes)]

\* ids = append(ids, *routeList.ID) over the routes, in order.
RouteIdValues(list) == [i \in 1..Len(list) |-> list[i][1]]

\* The handler ends in a panic: a nil pointer was dereferenced.
Panic ==
    /\ Return("panic: nil pointer dereference")
    /\ UNCHANGED <<id, attrs, acked, eipVars>>

\* The end of a data-source read, lines 314-320: result_output_file is
\* written when it is set, and writing may fail.
WriteOutcomes == {"unset", "written", "failed"}

WriteToFile(out) == Return(IF out = "failed" THEN "write file failed" ELSE "nil")

TseGatewayRoutesBegin ==
    /\ Idle
    /\ Enter("TseGatewayRoutesRead", "describe", <<>>, {}, NoCfg)
    /\ NoChange

\* dataSourceTencentCloudTseGatewayRoutesRead: the describe inside Retry, then
\* the routes are flattened, their IDs collected, d.Set("result"), and the ID
\* is the hash of the collected IDs.  len(result.RouteList) at line 220
\* dereferences result, *routeList.ID at line 300 dereferences the ID.
TseGatewayRoutesRead ==
    /\ op = "TseGatewayRoutesRead" /\ pc = "describe"
    /\ \E e \in Answers, r \in TseResults, out \in WriteOutcomes :
         /\ InRetry("DescribeTseGatewayRoutesByFilter", <<>>, Outcome(e),
                    ReadRetryBudget, e,
                    IF r.isNil \/ \E i \in 1..Len(r.RouteList) : r.RouteList[i] = <<>>
                    THEN Panic
                    ELSE /\ attrs' = DSet(attrs, "result", <<"r">>)
                         /\ id' = DataResourceIdsHash(RouteIdValues(r.RouteList))
                         /\ WriteToFile(out)
                         /\ UNCHANGED <<acked, eipVars>>)
         /\ seen' = [e |-> e,
                     len |-> IF e = "nil" /\ ~r.isNil THEN Len(r.RouteList) ELSE -1,
                     status |-> -1,
                     ids |-> IF e = "nil" THEN r.RouteList ELSE <<>>]
    /\ UNCHANGED <<obs, changed, cfg, id0, attrs0, resp>>

\* The computed attributes of sqlserver_ins_attribute, and instance_id.
SqlserverInsAttributeAttrs ==
    {"instance_id", "regular_backup_enable", "regular_backup_save_days",
     "regular_backup_strategy", "regular_backup_counts",
     "regular_backup_start_time", "blocked_threshold", "event_save_days",
     "tde_config"}

SqlserverInsAttributeBegin ==
    /\ Idle
    /\ \E instanceId \in Parts :
         Enter("SqlserverInsAttributeRead", "describe", <<>>, {},
               [p1 |-> instanceId, p2 |-> <<>>])
    /\ NoChange

\* dataSourceTencentCloudSqlserverInsAttributeRead: the describe inside Retry,
\* then the fields that are not nil are written and the ID is instance_id of
\* the configuration.  cfg.p1 is instance_id.
SqlserverInsAttributeRead ==
    /\ op = "SqlserverInsAttributeRead" /\ pc = "describe"
    /\ \E e \in Answers, out \in WriteOutcomes,
          notNil \in {SqlserverInsAttributeAttrs, {"instance_id"}, {}} :
         /\ InRetry("DescribeSqlserverInsAttributeByFilter", <<cfg.p1>>, Outcome(e),
                    ReadRetryBudget, e,
                    /\ attrs' = {<<n, IF n = "instance_id" THEN cfg.p1 ELSE <<"r">> >> :
                                    n \in notNil}
                                  \cup {x \in attrs : x[1] \notin notNil}
                    /\ id' = cfg.p1
                    /\ WriteToFile(out)
                    /\ UNCHANGED <<acked, eipVars>>)
         /\ seen' = Seen(e, 1)
    /\ UNCHANGED <<obs, changed, cfg, id0, attrs0, resp>>

NextDataSources ==
    \/ TseGatewayRoutesBegin
    \/ TseGatewayRoutesRead
    \/ SqlserverInsAttributeBegin
    \/ SqlserverInsAttributeRead

Next ==
    \/ NextNat
    \/ NextNatUpdate
    \/ NextTmpCvmAgent
    \/ NextScf
    \/ NextNamespaceRoleAttachment
    \/ NextRabbitmqUser
    \/ NextWedataRuleTemplate
    \/ NextEmrCluster
    \/ NextDataSources
    \/ Finish

Spec == Init /\ [][Next]_vars

\* The updates of assigned_eip_set alone, over all its values.
SpecEip == Init /\ [][NextEip]_vars

\* A handler has been invoked and has not returned.
Running == pc \notin {"idle", "done"}

\* A handler that has been invoked takes its next step: every remote call
\* returns.
FairSpec == Spec /\ WF_vars(Running /\ Next)

(* ------------------------------ claims -------------------------------- *)

\* The gateway a poll of Create has to see before Create goes on.
Available == [len |-> 1, stat |-> "AVAILABLE"]

\* C1: NAT gateway Create gets past its wait, and so returns success, only
\* after CreateNatGateway succeeded and the last DescribeNatGateways answer
\* showed exactly one gateway in state AVAILABLE; while the last answer shows
\* one gateway in another state, Create is still polling or has returned an
\* error.
C1_CreateWaitsForAvailable ==
    /\ (op = "NatCreate" /\ (pc \in {"read_describe", "read_tags"}
                               \/ (pc = "done" /\ err = "nil")))
          => ("CreateNatGateway" \in acked /\ obs = Available)
    /\ (op = "NatCreate" /\ obs.len = 1 /\ obs.stat # "AVAILABLE")
          => (pc = "create_poll" \/ (pc = "done" /\ err # "nil"))

\* Create has returned success.
C1_Witness ==
    op = "NatCreate" /\ pc = "done" /\ err = "nil" /\ id = NatId /\ obs = Available

\* C2: NAT gateway Delete returns success only after DeleteNatGateway
\* succeeded and the last DescribeNatGateways answer was an empty set; a
\* poll that sees the gateway in NAT_FAILED_STATE ends Delete with
\* "delete NAT failed"; no describe is sent unless DeleteNatGateway succeeded.
C2_DeleteWaitsUntilGone ==
    /\ (op = "NatDelete" /\ pc = "done" /\ err = "nil")
          => ("DeleteNatGateway" \in acked /\ obs.len = 0
                /\ loop.site = "DescribeNatGateways")
    /\ (op = "NatDelete" /\ obs.len >= 1 /\ obs.stat = NAT_FAILED_STATE)
          => (pc = "done" /\ err = "delete NAT failed")
    /\ (op = "NatDelete" /\ "DeleteNatGateway" \notin acked)
          => (loop.site # "DescribeNatGateways" /\ obs = NoObs)

\* Delete has returned success after a poll that still saw the gateway.
C2_Witness ==
    op = "NatDelete" /\ pc = "done" /\ err = "nil" /\ obs.len = 0 /\ loop.n >= 2

\* Update has returned without error from a change of assigned_eip_set.
EipUpdateDone ==
    op = "NatUpdate" /\ pc = "done" /\ err = "nil" /\ HasChange("assigned_eip_set")

\* C3: when all remote calls succeed, the Disassociate and Associate requests
\* of Update, applied in order to a gateway bound to the old set, leave it
\* bound to exactly the new set.
C3_UpdateBindsNewSet == EipUpdateDone => bound = newEipSet

\* C4: after every Disassociate or Associate request of Update the gateway is
\* bound to at least one address.
C4_NeverWithoutEip == op = "NatUpdate" => bound # {}

\* C5: after every Associate request of Update at most NAT_EIP_MAX_LIMIT
\* addresses are bound to the gateway.
C5_AtMostLimitBound == op = "NatUpdate" => Cardinality(bound) <= NAT_EIP_MAX_LIMIT

\* C6: every invocation of a handler returns: no retry loop runs forever,
\* whatever the remote side answers.
C6_EveryOperationReturns == (op # "none") ~> (pc = "done")

\* Create's wait has given up on a gateway that never became AVAILABLE.
C6_Witness ==
    /\ op = "NatCreate" /\ pc = "done" /\ err = "creating not ready retry"
    /\ loop.site = "DescribeNatGateways" /\ loop.n >= ReadRetryBudget

\* The call sites of requests that change the remote side.
MutatingSites ==
    {"CreateNatGateway", "ModifyTags", "DeleteNatGateway",
     "ModifyNatGatewayAttribute", "ResetNatGatewayConnection",
     "DisassociateNatGatewayAddress", "AssociateNatGatewayAddress",
     "DisassociateNatGatewayAddress.backup", "AssociateNatGatewayAddress.backup",
     "CreatePrometheusAgent", "UpdateFunctionEventInvokeConfig",
     "CreateTdmqNamespaceRoleAttachment", "ModifyTdmqNamespaceRoleAttachment",
     "DeleteTdmqNamespaceRoleAttachment", "CreateRabbitMQUser",
     "ModifyRabbitMQUser", "DeleteTdmqRabbitmqUserById",
     "CreateRuleTemplate", "ModifyRuleTemplate", "DeleteWedataRuleTemplateById",
     "CreateInstance", "UpdateInstance", "DeleteInstance",
     "OfflineIsolatedInstances"}

\* The mutating requests that sit outside any retry loop.
SentOnceSites ==
    {"ModifyTags", "CreateTdmqNamespaceRoleAttachment",
     "ModifyTdmqNamespaceRoleAttachment", "DeleteTdmqRabbitmqUserById",
     "DeleteWedataRuleTemplateById", "CreateInstance", "UpdateInstance",
     "DeleteInstance"}

\* C7 as stated: within one invocation every mutating request is sent at most
\* once.
C7_MutatingSentOnce == loop.site \in MutatingSites => loop.n <= 1

\* C7, amended: a mutating request is sent again at its call site only when
\* it sits in a retry loop, its previous attempt failed with a retryable
\* error and it has not succeeded before; the mutating requests outside retry
\* loops are sent at most once.
C7_MutatingResentOnlyOnRetryable ==
    [][(loop' # loop /\ loop'.site \in MutatingSites /\ loop'.site = loop.site)
          => (/\ loop.last = "retryable"
              /\ loop.site \notin SentOnceSites
              /\ loop.site \notin acked)]_vars

\* A mutating request has been sent a second time.
C7_Witness ==
    loop.site \in MutatingSites /\ loop.n >= 2 /\ loop.site \notin SentOnceSites

\* C8: the ID tmp_cvm_agent Create sets is instance_id#agent_id, and the Read
\* that follows never reports it broken and describes the agent with the
\* same (instance_id, agent id) pair.
C8_TmpCvmAgentIdRoundTrip ==
    (op = "TmpCvmAgentCreate" /\ "CreatePrometheusAgent" \in acked)
       => /\ pc \in {"read_parse", "read_call"}
               => id = cfg.p1 \o <<FILED_SP>> \o resp
          /\ err # "id is broken"
          /\ loop.site = "DescribeMonitorTmpCvmAgent"
               => loop.args = <<cfg.p1, resp>>

\* C9: the ID scf function_event_invoke_config Create sets is f#n, Update and
\* Read never report it broken and send their requests for function f in
\* namespace n, and Read writes function_name = f and namespace = n.
C9_ScfIdRoundTrip ==
    (op = "ScfCreate" /\ pc # "create")
       => /\ pc \in {"update_parse", "update_call", "read_parse", "read_call"}
               => id = cfg.p1 \o <<FILED_SP>> \o cfg.p2
          /\ err # "id is broken"
          /\ loop.site \in {"UpdateFunctionEventInvokeConfig",
                            "DescribeScfFunctionEventInvokeConfigById"}
               => loop.args = <<cfg.p2, cfg.p1>>
          /\ (pc = "done" /\ err = "nil" /\ id # <<>>)
               => (<<"function_name", cfg.p1>> \in attrs
                     /\ <<"namespace", cfg.p2>> \in attrs)

\* The ID does not consist of two parts around one separator.
Malformed(s) == Cardinality({i \in 1..Len(s) : s[i] = FILED_SP}) # 1

\* Read, Update and Delete of the four resources with a compound ID.
IdOps ==
    {"TmpCvmAgentRead", "TmpCvmAgentDelete",
     "ScfUpdate", "ScfRead", "ScfDelete",
     "NamespaceRoleUpdate", "NamespaceRoleRead", "NamespaceRoleDelete",
     "RabbitmqUserUpdate", "RabbitmqUserRead", "RabbitmqUserDelete"}

\* The Delete handlers that return nil without looking at the ID.
EmptyDeletes == {"TmpCvmAgentDelete", "ScfDelete"}

NamespaceRoleOps == {"NamespaceRoleUpdate", "NamespaceRoleRead", "NamespaceRoleDelete"}

\* The errors that report a malformed ID; namespace_role_attachment spells
\* its message "environment role id is borken".
IdBrokenErrors == {"id is broken", "environment role id is borken"}

\* The handler has sent no request and left the ID and the attributes alone.
Untouched == loop = NoLoop /\ id = id0 /\ attrs = attrs0

\* C10 as stated: every Read, Update or Delete entered with a malformed ID
\* returns an "id is broken" error, sends no request and changes nothing.
C10_MalformedIdIsBroken ==
    (op \in IdOps /\ Malformed(id0))
       => (Untouched /\ (pc = "done" => err \in IdBrokenErrors))

\* C10, amended: a Read, Update or Delete entered with a malformed ID sends
\* no request and leaves the ID and the attributes unchanged; it returns the
\* resource's malformed-ID error ("id is broken", for namespace_role_attachment
\* "environment role id is borken"), except the Delete of tmp_cvm_agent and of
\* scf function_event_invoke_config, which return nil for every ID.
C10_MalformedIdRejected ==
    /\ (op \in IdOps /\ Malformed(id0)) => Untouched
    /\ (op \in IdOps \ EmptyDeletes /\ Malformed(id0) /\ pc = "done")
          => err = (IF op \in NamespaceRoleOps
                    THEN "environment role id is borken" ELSE "id is broken")
    /\ op \in EmptyDeletes => (Untouched /\ (pc = "done" => err = "nil"))

\* A handler has rejected an ID with two separators.
C10_Witness ==
    /\ op \in IdOps \ EmptyDeletes /\ pc = "done"
    /\ Cardinality({i \in 1..Len(id0) : id0[i] = FILED_SP}) >= 2
    /\ err \in IdBrokenErrors

\* The describe calls of the Reads that take a missing resource for deleted.
ReadDescribeSites ==
    {"DescribeNatGateways.read", "DescribeWedataRuleTemplateById",
     "DescribeScfFunctionEventInvokeConfigById", "DescribeTdmqRabbitmqUserById",
     "DescribeTdmqNamespaceRoleAttachment"}

\* C11: when the describe of Read answers without error that the resource
\* does not exist (an empty gateway set, a nil object, has = false), Read
\* returns nil with the ID cleared and the attributes as it found them, for
\* nat_gateway, wedata rule_template, scf function_event_invoke_config, tdmq
\* rabbitmq_user and tdmq namespace_role_attachment.
C11_MissingResourceLeavesState ==
    (loop.site \in ReadDescribeSites /\ seen.e = "nil" /\ seen.len = 0)
       => (pc = "done" /\ err = "nil" /\ id = <<>> /\ attrs = attrs0)

\* A Read entered with saved attributes has found its resource missing after
\* a describe that was retried.
C11_Witness ==
    /\ op = "NamespaceRoleRead" /\ pc = "done" /\ err = "nil"
    /\ loop.site = "DescribeTdmqNamespaceRoleAttachment" /\ loop.n >= 2
    /\ seen.e = "nil" /\ seen.len = 0
    /\ id0 # <<>> /\ id = <<>> /\ attrs0 # {} /\ attrs = attrs0
\* C12: a NAT gateway Update in which zone has changed sends no request at
\* all (no modify, reset, associate, disassociate or tag call), takes no step
\* but its return, and returns "argument zone cannot be changed", whichever
\* other arguments changed with it.
C12_ZoneChangeRejected ==
    (op = "NatUpdate" /\ "zone" \in changed)
       => /\ loop = NoLoop /\ acked = {} /\ bound = oldEipSet
          /\ pc \in {"update_zone", "done"}
          /\ pc = "done" => err = "argument zone cannot be changed"

\* Update has rejected a change of zone that came with a change of name, of
\* max_concurrent, of assigned_eip_set and of tags.
C12_Witness ==
    /\ op = "NatUpdate" /\ pc = "done" /\ err = "argument zone cannot be changed"
    /\ {"zone", "name", "max_concurrent", "assigned_eip_set", "tags"} \subseteq changed
    /\ oldEipSet # newEipSet /\ loop = NoLoop

\* The message rabbitmq_user Update returns for the first of instance_id,
\* user and password that changed.
RabbitmqUserRejection ==
    IF "instance_id" \in changed THEN "argument instance_id cannot be changed"
    ELSE IF "user" \in changed THEN "argument user cannot be changed"
    ELSE "argument password cannot be changed"

\* instance_id, user or password of a rabbitmq_user has changed.
RabbitmqUserImmutableChanged ==
    /\ op = "RabbitmqUserUpdate"
    /\ changed \cap {"instance_id", "user", "password"} # {}

\* C13 as stated: whenever instance_id, user or password has changed,
\* rabbitmq_user Update returns "argument ... cannot be changed", sends no
\* request and does not read the resource again.
C13_ImmutableChangeRejected ==
    RabbitmqUserImmutableChanged
       => (loop = NoLoop /\ (pc = "done" => err = RabbitmqUserRejection))

\* C13, amended: whenever instance_id, user or password has changed,
\* rabbitmq_user Update sends no request, reads nothing and leaves the ID
\* and the attributes alone; it returns "id is broken" when the ID is
\* malformed and otherwise "argument ... cannot be changed" for the first of
\* the three that changed.
C13_ImmutableChangeRejectedAfterId ==
    RabbitmqUserImmutableChanged
       => /\ Untouched /\ acked = {}
          /\ pc \in {"update_parse", "done"}
          /\ pc = "done" => err = (IF Malformed(id0) THEN "id is broken"
                                   ELSE RabbitmqUserRejection)

\* Update has rejected a change of password that came with a change of
\* description, for a well-formed ID.
C13_Witness ==
    /\ op = "RabbitmqUserUpdate" /\ pc = "done"
    /\ ~Malformed(id0)
    /\ changed = {"password", "description"}
    /\ err = "argument password cannot be changed"
    /\ loop = NoLoop

\* The ten arguments of wedata rule_template.
RuleTemplateArguments ==
    {"type", "name", "quality_dim", "source_object_type", "description",
     "source_engine_types", "multi_source_flag", "sql_expression", "project_id",
     "where_flag"}

\* C14: whenever one of the ten arguments of wedata rule_template has
\* changed, Update returns "argument ... cannot be changed" for a changed
\* argument and sends nothing; every ModifyRuleTemplate request Update sends
\* carries the TemplateId and no other field.
C14_RuleTemplateImmutable ==
    /\ (op = "WedataUpdate" /\ changed \cap RuleTemplateArguments # {})
          => /\ loop = NoLoop /\ acked = {}
             /\ pc \in {"update", "done"}
             /\ pc = "done" => \E v \in changed : err = CannotBeChanged(v)
    /\ loop.site = "ModifyRuleTemplate" => loop.args = <<"TemplateId">>

\* Update has rejected a change of where_flag, the last of the ten.
C14_Witness ==
    /\ op = "WedataUpdate" /\ pc = "done" /\ changed = {"where_flag"}
    /\ err = "argument where_flag cannot be changed" /\ loop = NoLoop
\* C15 as stated: EMR cluster Create returns success only after CreateInstance
\* succeeded and the last DescribeInstancesById answer showed the cluster
\* with status EmrInternetStatusCreated; while the last answer shows the
\* cluster in another status, Create is still polling or has returned an
\* error.
C15_EmrCreateWaitsForCreated ==
    /\ (op = "EmrCreate" /\ (pc = "create_tags" \/ (pc = "done" /\ err = "nil")))
          => /\ "CreateInstance" \in acked
             /\ seen.e = "nil" /\ seen.len > 0
             /\ seen.status = EmrInternetStatusCreated
    /\ (op = "EmrCreate" /\ seen.len > 0 /\ seen.status # EmrInternetStatusCreated)
          => (pc = "create_poll" \/ (pc = "done" /\ err # "nil"))
\* C16: a poll of NAT gateway Create that succeeds with a gateway set of
\* another size than 1 ends Create at once with "creating error": no further
\* poll is sent and Read does not run.
C16_CreatePollStopsOnWrongCount ==
    (op = "NatCreate" /\ obs # NoObs /\ obs.len # 1)
       => /\ pc = "done" /\ err = "creating error"
          /\ loop.site = "DescribeNatGateways" /\ loop.last = "fatal"
          /\ seen = NoSeen /\ attrs = {}

\* Create has ended on a poll that returned two gateways, after a poll that
\* was retried.
C16_Witness ==
    /\ op = "NatCreate" /\ pc = "done" /\ err = "creating error"
    /\ obs.len = 2 /\ loop.site = "DescribeNatGateways" /\ loop.n >= 2
\* The reads of the two data sources.
DataSourceReads == {"SqlserverInsAttributeRead", "TseGatewayRoutesRead"}

\* C17: a data-source read whose describe has not succeeded leaves the ID and
\* the attributes as they were, and returns the error the retry loop ended
\* with; once the describe has succeeded the read ends with the ID set, for
\* sqlserver_ins_attribute to instance_id and for tse_gateway_routes to the
\* hash of the route IDs of the answer in their order, so that the ID is a
\* function of the answer.
C17_DataSourceIdAfterDescribe ==
    /\ (op \in DataSourceReads /\ seen.e # "nil")
          => (id = id0 /\ attrs = attrs0 /\ (pc = "done" => err = seen.e))
    /\ (op = "SqlserverInsAttributeRead" /\ seen.e = "nil")
          => (pc = "done" /\ id = cfg.p1)
    /\ (op = "TseGatewayRoutesRead" /\ seen.e = "nil")
          => /\ pc = "done"
             /\ id = DataResourceIdsHash(
                        [i \in 1..Len(seen.ids) |->
                            IF seen.ids[i] = <<>> THEN <<>> ELSE seen.ids[i][1]])

====
